---------------------------- MODULE Spec2Model ----------------------------
(***************************************************************************)
(* factory-class-crud-generator: model discovery, schema derivation, the   *)
(* generated CRUD operations with soft delete, and route registration.     *)
(*                                                                         *)
(* Strings the code slices, lower-cases or concatenates (file names, class *)
(* names, route paths, table names) are tuples of one-character strings,   *)
(* so that str.lower(), str.endswith(), str.startswith() and f-strings are *)
(* computed and not assumed.                                               *)
(***************************************************************************)
EXTENDS Integers, Sequences, FiniteSets, TLC

VARIABLES
    listing,    \* os.listdir(models_path): sequence of directory entries; <<>> with dir_exists = FALSE
    dir_exists, \* os.path.exists(models_path)
    pc,         \* "startup" before startup_event has run, "serving" after
    models,     \* the dict returned by discover_and_register_models, in insertion order
    routes,     \* the FastAPI route table, in registration order
    db,         \* table name -> rows in physical (scan) order
    seq,        \* table name -> last value handed out by the id sequence
    defaults,   \* the scalar defaults of created_at / updated_at / onupdate, evaluated at class definition
    now,        \* the wall clock
    req,        \* the request being served, NoRequest when the server is idle
    resp        \* the response to it

vars == <<listing, dir_exists, pc, models, routes, db, seq, defaults, now, req, resp>>

----------------------------------------------------------------------------
(* Bounds *)

MaxFiles == 3        \* entries in the models directory (startup specification)
MaxRows == 2         \* rows per table (request specification)
MaxTime == 1         \* last clock tick
MaxSkip == 1         \* largest explicit skip / limit of a list request
MaxListRows == 101   \* rows of the table in the pagination specification

----------------------------------------------------------------------------
(* Strings *)

UpperCase == <<"A","B","C","D","E","F","G","H","I","J","K","L","M",
               "N","O","P","Q","R","S","T","U","V","W","X","Y","Z">>
LowerCase == <<"a","b","c","d","e","f","g","h","i","j","k","l","m",
               "n","o","p","q","r","s","t","u","v","w","x","y","z">>

\* str.lower() on one character
lower_char(c) ==
    IF \E i \in 1..26 : UpperCase[i] = c
    THEN LowerCase[CHOOSE i \in 1..26 : UpperCase[i] = c]
    ELSE c

\* str.lower()
lower(s) == [i \in 1..Len(s) |-> lower_char(s[i])]

\* str.endswith(suffix)
endswith(s, suffix) ==
    /\ Len(s) >= Len(suffix)
    /\ SubSeq(s, Len(s) - Len(suffix) + 1, Len(s)) = suffix

\* str.startswith(prefix)
startswith(s, prefix) ==
    /\ Len(s) >= Len(prefix)
    /\ SubSeq(s, 1, Len(prefix)) = prefix

DotPy == <<".","p","y">>
DunderPrefix == <<"_","_">>
Slash == <<"/">>
ItemIdPath == <<"/","{","i","t","e","m","_","i","d","}">>

----------------------------------------------------------------------------
(* models/base.py, models/product.py, models/offer.py *)

BaseModelName == <<"B","a","s","e","M","o","d","e","l">>
BaseName == <<"B","a","s","e">>
ProductName == <<"P","r","o","d","u","c","t">>
OfferName == <<"O","f","f","e","r">>
LabelEnumName == <<"L","a","b","e","l","E","n","u","m">>
DraftName == <<"D","r","a","f","t">>

\* BaseModel.__tablename__: cls.__name__.lower() + 's'
tablename(name) == lower(name) \o <<"s">>

\* Column(...) as create_pydantic_model and the INSERT read it: nullable,
\* whether a default is set, and the table a ForeignKey points to (<<>> if none)
Column(name, nullable, has_default, fk) ==
    [name |-> name, nullable |-> nullable, has_default |-> has_default, fk |-> fk]

BaseColumns ==
    << Column("id", FALSE, FALSE, <<>>),
       Column("created_at", FALSE, TRUE, <<>>),
       Column("updated_at", FALSE, TRUE, <<>>),
       Column("is_active", FALSE, TRUE, <<>>) >>

ProductColumns ==
    << Column("external_id", FALSE, FALSE, <<>>),
       Column("name", FALSE, FALSE, <<>>),
       Column("label", FALSE, FALSE, <<>>),
       Column("description", FALSE, FALSE, <<>>) >>

OfferColumns ==
    << Column("product_id", FALSE, FALSE, tablename(ProductName)),
       Column("reference_year", FALSE, FALSE, <<>>),
       Column("reference_month", FALSE, FALSE, <<>>),
       Column("value", FALSE, FALSE, <<>>) >>

\* A class object: its __name__, whether issubclass(obj, BaseModel), whether
\* it is BaseModel itself, its __tablename__ (<<>> when it has none) and its
\* __table__.columns.  BaseModel declares __tablename__ for itself and for
\* every subclass.
BaseModel == [name |-> BaseModelName, subclass |-> TRUE, is_base |-> TRUE,
              tablename |-> tablename(BaseModelName), columns |-> BaseColumns]
Base == [name |-> BaseName, subclass |-> FALSE, is_base |-> FALSE,
         tablename |-> <<>>, columns |-> <<>>]
Product == [name |-> ProductName, subclass |-> TRUE, is_base |-> FALSE,
            tablename |-> tablename(ProductName), columns |-> BaseColumns \o ProductColumns]
Offer == [name |-> OfferName, subclass |-> TRUE, is_base |-> FALSE,
          tablename |-> tablename(OfferName), columns |-> BaseColumns \o OfferColumns]
LabelEnum == [name |-> LabelEnumName, subclass |-> FALSE, is_base |-> FALSE,
              tablename |-> <<>>, columns |-> <<>>]
Draft == [name |-> DraftName, subclass |-> TRUE, is_base |-> FALSE,
          tablename |-> tablename(DraftName), columns |-> BaseColumns]

Classes == {BaseModel, Base, Product, Offer, LabelEnum, Draft}

\* Class objects are held by reference: the state names a class and class_of
\* is the object.
class_of(name) == CHOOSE c \in Classes : c.name = name

----------------------------------------------------------------------------
(* The models directory *)

InitPy == <<"_","_","i","n","i","t","_","_",".","p","y">>
BasePy == <<"b","a","s","e",".","p","y">>
ProductPy == <<"p","r","o","d","u","c","t",".","p","y">>
OfferPy == <<"o","f","f","e","r",".","p","y">>
OfferPyc == <<"o","f","f","e","r",".","p","y","c">>
DraftPy == <<"d","r","a","f","t",".","p","y">>

\* the directory entries of the startup specification: the repository's four
\* files, a compiled file next to its source, and a model file whose import
\* raises ImportError
DirEntries == {InitPy, BasePy, ProductPy, OfferPy, OfferPyc, DraftPy}

\* importlib.import_module on a file: whether it succeeds, and the names of
\* the classes inspect.getmembers(module, inspect.isclass) yields, sorted by
\* name (imported classes included)
import_module(filename) ==
    CASE filename = InitPy -> [ok |-> TRUE, members |-> <<BaseModelName, OfferName, ProductName>>]
      [] filename = BasePy -> [ok |-> TRUE, members |-> <<BaseName, BaseModelName>>]
      [] filename = ProductPy -> [ok |-> TRUE, members |-> <<BaseModelName, LabelEnumName, ProductName>>]
      [] filename = OfferPy -> [ok |-> TRUE, members |-> <<BaseModelName, OfferName>>]
      [] filename = OfferPyc -> [ok |-> TRUE, members |-> <<BaseModelName, OfferName>>]
      [] filename = DraftPy -> [ok |-> FALSE, members |-> <<BaseModelName, DraftName>>]

\* the models directory of the repository
RepoListing == <<InitPy, BasePy, OfferPy, ProductPy>>

----------------------------------------------------------------------------
(* app/model_discovery.py *)

\* models[name] = obj on an insertion-ordered dict
dict_set(d, k, v) ==
    IF \E i \in 1..Len(d) : d[i].key = k
    THEN [i \in 1..Len(d) |-> IF d[i].key = k THEN [key |-> k, value |-> v] ELSE d[i]]
    ELSE Append(d, [key |-> k, value |-> v])

dict_keys(d) == {d[i].key : i \in 1..Len(d)}

\* is_model without the test that leaves BaseModel out
is_model_or_base(obj) == obj.subclass /\ obj.tablename # <<>>

\* the condition under which a member is registered
is_model(obj) == obj.subclass /\ ~obj.is_base /\ obj.tablename # <<>>

RECURSIVE register_members(_, _)
register_members(d, members) ==
    IF members = <<>> THEN d
    ELSE LET obj == class_of(Head(members))
         IN register_members(IF is_model(obj) THEN dict_set(d, obj.name, obj.name) ELSE d,
                             Tail(members))

\* the file filter of the loop over os.listdir
is_model_file(filename) == endswith(filename, DotPy) /\ ~startswith(filename, DunderPrefix)

RECURSIVE scan_files(_, _)
scan_files(d, files) ==
    IF files = <<>> THEN d
    ELSE LET module == import_module(Head(files))
         IN IF is_model_file(Head(files))
            THEN IF module.ok
                 THEN scan_files(register_members(d, module.members), Tail(files))
                 ELSE scan_files(d, Tail(files))     \* except ImportError: continue
            ELSE scan_files(d, Tail(files))

discover_and_register_models(exists, files) ==
    IF ~exists THEN <<>> ELSE scan_files(<<>>, files)

----------------------------------------------------------------------------
(* app/crud_generator.py: schema derivation *)

\* does the loop body of create_pydantic_model add the column to fields?
schema_has(column, exclude_fields) ==
    /\ column.name \notin exclude_fields
    /\ \/ (column.nullable /\ column.name # "id")
       \/ column.has_default
       \/ column.name # "id"

\* is the field required (default_value left at ...)?
schema_required(column) ==
    /\ ~(column.nullable /\ column.name # "id")
    /\ ~column.has_default

\* the fields of the Pydantic model: field name -> required
create_pydantic_model(sqlalchemy_model, exclude_fields) ==
    LET cols == sqlalchemy_model.columns
        kept == {i \in 1..Len(cols) : schema_has(cols[i], exclude_fields)}
    IN [f \in {cols[i].name : i \in kept} |->
            schema_required(cols[CHOOSE i \in kept : cols[i].name = f])]

\* the exclude_fields of the create and update schemas
ExcludeFields == {"id", "created_at", "updated_at", "is_active"}

\* item.model_dump(exclude_unset=True) of a payload validated against schema:
\* keys that are not fields of the schema are dropped
model_dump(schema, payload) ==
    [f \in (DOMAIN payload) \cap (DOMAIN schema) |-> payload[f]]

\* validation: every required field is set
validates(schema, payload) ==
    \A f \in DOMAIN schema : schema[f] => f \in DOMAIN payload

----------------------------------------------------------------------------
(* app/crud_generator.py: route registration *)

Route(method, path, tag, kind, model_cls, crud, schema) ==
    [method |-> method, path |-> path, tags |-> tag,
     endpoint |-> [kind |-> kind, model_cls |-> model_cls, crud |-> crud, schema |-> schema]]

route_prefix(model_name) == Slash \o lower(model_name)

\* model_routes without the app.delete registration
model_routes_no_delete(model_name, model_class) ==
    LET schema == create_pydantic_model(class_of(model_class), ExcludeFields)
        prefix == route_prefix(model_name)
    IN << Route("POST", prefix \o Slash, <<model_name>>, "create", model_class, model_class, schema),
          Route("GET", prefix \o ItemIdPath, <<model_name>>, "get", model_class, model_class, <<>>),
          Route("GET", prefix \o Slash, <<model_name>>, "get_all", model_class, model_class, <<>>),
          Route("PUT", prefix \o ItemIdPath, <<model_name>>, "update", model_class, model_class, schema) >>

\* the five registrations of one loop iteration; the factories bind
\* model_class / crud_ops / the schema of this iteration
model_routes(model_name, model_class) ==
    LET create_model_schema == create_pydantic_model(class_of(model_class), ExcludeFields)
        update_model_schema == create_pydantic_model(class_of(model_class), ExcludeFields)
        crud_ops == model_class
        prefix == route_prefix(model_name)
    IN << Route("POST", prefix \o Slash, <<model_name>>, "create",
                model_class, crud_ops, create_model_schema),
          Route("GET", prefix \o ItemIdPath, <<model_name>>, "get",
                model_class, crud_ops, <<>>),
          Route("GET", prefix \o Slash, <<model_name>>, "get_all",
                model_class, crud_ops, <<>>),
          Route("PUT", prefix \o ItemIdPath, <<model_name>>, "update",
                model_class, crud_ops, update_model_schema),
          Route("DELETE", prefix \o ItemIdPath, <<model_name>>, "delete",
                model_class, crud_ops, <<>>) >>

\* the registrations of every model, the endpoints reading crud_ops when they
\* run instead of binding it when they are made: all use the last model's
RECURSIVE late_bound_routes(_, _)
late_bound_routes(d, last) ==
    IF d = <<>> THEN <<>>
    ELSE [i \in 1..5 |->
            [model_routes(Head(d).key, Head(d).value)[i] EXCEPT !.endpoint.crud = last]]
         \o late_bound_routes(Tail(d), last)

generate_crud_routes_late_binding(app_routes, d) ==
    IF d = <<>> THEN app_routes
    ELSE app_routes \o late_bound_routes(d, d[Len(d)].value)

RECURSIVE generate_crud_routes(_, _)
generate_crud_routes(app_routes, d) ==
    IF d = <<>> THEN app_routes
    ELSE generate_crud_routes(app_routes \o model_routes(Head(d).key, Head(d).value), Tail(d))

----------------------------------------------------------------------------
(* main.py *)

\* the routes main.py registers itself: GET / and GET /health
AppRoutes ==
    << Route("GET", Slash, <<>>, "root", <<>>, <<>>, <<>>),
       Route("GET", <<"/","h","e","a","l","t","h">>, <<>>, "health", <<>>, <<>>, <<>>) >>

\* the table names create_tables() creates: one per model class
TableNames == {Product.tablename, Offer.tablename}

\* datetime.now() evaluated while the class body of BaseModel runs, at
\* import time 0: the clock may or may not have advanced by the last
\* evaluation, the one of onupdate
DefaultTimes ==
    [created_at : {0}, updated_at : {0}, onupdate : 0..1]

NoRequest == [method |-> "", path |-> <<>>, item_id |-> 0, payload |-> <<>>, query |-> <<>>]
NoResponse == [status |-> 0, items |-> <<>>]

\* the directory listings of the startup specification
Listings ==
    UNION {{l \in [1..n -> DirEntries] : \A i, j \in 1..n : l[i] = l[j] => i = j} :
           n \in 0..MaxFiles}

InitStartup ==
    /\ dir_exists \in BOOLEAN
    /\ listing \in (IF dir_exists THEN Listings ELSE {<<>>})
    /\ pc = "startup"
    /\ models = <<>>
    /\ routes = AppRoutes
    /\ db = [t \in TableNames |-> <<>>]
    /\ seq = [t \in TableNames |-> 0]
    /\ defaults = [created_at |-> 0, updated_at |-> 0, onupdate |-> 0]
    /\ now = 0
    /\ req = NoRequest
    /\ resp = NoResponse

\* startup_event
StartupEvent ==
    /\ pc = "startup"
    /\ LET found == discover_and_register_models(dir_exists, listing)
       IN /\ models' = found
          /\ routes' = generate_crud_routes(routes, found)
    /\ pc' = "serving"
    /\ UNCHANGED <<listing, dir_exists, db, seq, defaults, now, req, resp>>

NextStartup == StartupEvent

SpecStartup == InitStartup /\ [][NextStartup]_vars


----------------------------------------------------------------------------
(* app/crud_generator.py: the CRUD operations of one model class.  d is the *)
(* database (table name -> rows), s the id sequences, dflt the column       *)
(* defaults, model_class the class the closures are bound to.               *)

\* BaseModel.to_dict: column name -> value, over the columns of the table
to_dict(row) == [c \in DOMAIN row |-> row[c]]

\* BaseModel.soft_delete
soft_delete(row) == [row EXCEPT !.is_active = FALSE]

\* Query.first(): no row or the first one
first(rows) == IF rows = <<>> THEN <<>> ELSE <<Head(rows)>>

\* active_index without the is_active condition of the filter
active_index_any(tbl, item_id) ==
    LET hits == {i \in 1..Len(tbl) : tbl[i].id = item_id}
    IN IF hits = {} THEN 0 ELSE CHOOSE i \in hits : \A j \in hits : i <= j

\* index in the table of the first row the filter (id == item_id, is_active) keeps
active_index(tbl, item_id) ==
    LET hits == {i \in 1..Len(tbl) : tbl[i].id = item_id /\ tbl[i].is_active}
    IN IF hits = {} THEN 0 ELSE CHOOSE i \in hits : \A j \in hits : i <= j

\* the constraints the database checks at flush: the primary key is unique
\* and every foreign key names a row of the table it references
integrity_ok(d, model_class, others, row) ==
    LET cols == model_class.columns
    IN /\ \A i \in 1..Len(others) : others[i].id # row.id
       /\ \A i \in 1..Len(cols) :
            cols[i].fk # <<>> =>
                \E k \in 1..Len(d[cols[i].fk]) : d[cols[i].fk][k].id = row[cols[i].name]

\* NOT NULL at INSERT: every column without a default (the id comes from the
\* sequence) is set by the object
not_null_ok(model_class, item_data) ==
    \A i \in 1..Len(model_class.columns) :
        LET col == model_class.columns[i]
        IN (~col.nullable /\ ~col.has_default /\ col.name # "id") => col.name \in DOMAIN item_data

\* the value an INSERT gives a column the object does not set
insert_default(c, next_id, dflt) ==
    CASE c = "id" -> next_id
      [] c = "created_at" -> dflt.created_at
      [] c = "updated_at" -> dflt.updated_at
      [] c = "is_active" -> TRUE

\* create_item that hands out the lowest id no visible row holds and lets
\* the new row take the place of a soft-deleted row with that id
create_item_recycle(d, s, dflt, model_class, item_data) ==
    LET t == model_class.tablename
        used == {d[t][i].id : i \in {k \in 1..Len(d[t]) : d[t][k].is_active}}
        next_id == CHOOSE n \in 1..(Len(d[t]) + 1) :
                      n \notin used /\ \A k \in 1..(n - 1) : k \in used
        db_item == [c \in {model_class.columns[i].name : i \in 1..Len(model_class.columns)} |->
                        IF c \in DOMAIN item_data THEN item_data[c]
                        ELSE insert_default(c, next_id, dflt)]
        kept == SelectSeq(d[t], LAMBDA r : r.id # next_id)
        s2 == [s EXCEPT ![t] = IF next_id > s[t] THEN next_id ELSE s[t]]
    IN IF not_null_ok(model_class, item_data) /\ integrity_ok(d, model_class, kept, db_item)
       THEN [db |-> [d EXCEPT ![t] = Append(kept, db_item)], seq |-> s2,
             status |-> 200, item |-> <<db_item>>]
       ELSE [db |-> d, seq |-> s2, status |-> 400, item |-> <<>>]

create_item(d, s, dflt, model_class, item_data) ==
    LET t == model_class.tablename
        next_id == s[t] + 1
        db_item == [c \in {model_class.columns[i].name : i \in 1..Len(model_class.columns)} |->
                        IF c \in DOMAIN item_data THEN item_data[c]
                        ELSE insert_default(c, next_id, dflt)]
        s2 == [s EXCEPT ![t] = next_id]
    IN IF not_null_ok(model_class, item_data) /\ integrity_ok(d, model_class, d[t], db_item)
       THEN [db |-> [d EXCEPT ![t] = Append(@, db_item)], seq |-> s2,
             status |-> 200, item |-> <<db_item>>]
       ELSE \* IntegrityError: db.rollback(), HTTP 400
            [db |-> d, seq |-> s2, status |-> 400, item |-> <<>>]

get_item(d, model_class, item_id) ==
    first(SelectSeq(d[model_class.tablename], LAMBDA r : r.id = item_id /\ r.is_active))

\* get_items without .offset(skip)
get_items_no_offset(d, model_class, skip, limit, order) ==
    LET tbl == d[model_class.tablename]
        scanned == [i \in 1..Len(tbl) |-> tbl[order[i]]]
        active == SelectSeq(scanned, LAMBDA r : r.is_active)
        last == IF limit < Len(active) THEN limit ELSE Len(active)
    IN IF skip < 0 \/ limit < 0
       THEN [status |-> 500, items |-> <<>>]
       ELSE [status |-> 200, items |-> SubSeq(active, 1, last)]

\* OFFSET skip LIMIT limit over the active rows, in the order the engine
\* scans the table (the query has no ORDER BY): order is a permutation of the
\* row positions.  The engine rejects a negative OFFSET or LIMIT.
get_items(d, model_class, skip, limit, order) ==
    LET tbl == d[model_class.tablename]
        scanned == [i \in 1..Len(tbl) |-> tbl[order[i]]]
        active == SelectSeq(scanned, LAMBDA r : r.is_active)
        last == IF skip + limit < Len(active) THEN skip + limit ELSE Len(active)
    IN IF skip < 0 \/ limit < 0
       THEN [status |-> 500, items |-> <<>>]
       ELSE [status |-> 200, items |-> SubSeq(active, skip + 1, last)]

\* update_item without db.rollback(): the flushed row stays
update_item_no_rollback(d, dflt, model_class, item_id, item_data) ==
    LET t == model_class.tablename
        i == active_index(d[t], item_id)
        old == d[t][i]
        set == [c \in DOMAIN old |->
                    IF c \in DOMAIN item_data /\ c # "id" THEN item_data[c] ELSE old[c]]
        new == IF set = old \/ set.updated_at # old.updated_at THEN set
               ELSE [set EXCEPT !.updated_at = dflt.onupdate]
        others == SubSeq(d[t], 1, i - 1) \o SubSeq(d[t], i + 1, Len(d[t]))
    IN IF i = 0 THEN [db |-> d, status |-> 404, item |-> <<>>]
       ELSE [db |-> [d EXCEPT ![t][i] = new],
             status |-> IF integrity_ok(d, model_class, others, new) THEN 200 ELSE 400,
             item |-> IF integrity_ok(d, model_class, others, new) THEN <<new>> ELSE <<>>]

update_item(d, dflt, model_class, item_id, item_data) ==
    LET t == model_class.tablename
        i == active_index(d[t], item_id)
        old == d[t][i]
        set == [c \in DOMAIN old |->
                    IF c \in DOMAIN item_data /\ c # "id" THEN item_data[c] ELSE old[c]]
        \* the UPDATE is emitted only for an object with changes; onupdate
        \* fills updated_at when the statement does not set it
        new == IF set = old \/ set.updated_at # old.updated_at THEN set
               ELSE [set EXCEPT !.updated_at = dflt.onupdate]
        others == SubSeq(d[t], 1, i - 1) \o SubSeq(d[t], i + 1, Len(d[t]))
    IN IF i = 0 THEN [db |-> d, status |-> 404, item |-> <<>>]
       ELSE IF integrity_ok(d, model_class, others, new)
       THEN [db |-> [d EXCEPT ![t][i] = new],
             status |-> 200, item |-> <<new>>]
       ELSE \* IntegrityError: db.rollback(), HTTP 400
            [db |-> d, status |-> 400, item |-> <<>>]

\* delete_item that removes the row
delete_item_hard(d, dflt, model_class, item_id) ==
    LET t == model_class.tablename
        i == active_index(d[t], item_id)
    IN IF i = 0 THEN [db |-> d, ok |-> FALSE]
       ELSE [db |-> [d EXCEPT ![t] = SubSeq(@, 1, i - 1) \o SubSeq(@, i + 1, Len(@))],
             ok |-> TRUE]

\* delete_item that reports success for a row that is already inactive
delete_item_again(d, dflt, model_class, item_id) ==
    LET t == model_class.tablename
        i == active_index(d[t], item_id)
        new == [soft_delete(d[t][i]) EXCEPT !.updated_at = dflt.onupdate]
    IN IF i = 0 THEN [db |-> d, ok |-> \E k \in 1..Len(d[t]) : d[t][k].id = item_id]
       ELSE [db |-> [d EXCEPT ![t][i] = new], ok |-> TRUE]

delete_item(d, dflt, model_class, item_id) ==
    LET t == model_class.tablename
        i == active_index(d[t], item_id)
        new == [soft_delete(d[t][i]) EXCEPT !.updated_at = dflt.onupdate]
    IN IF i = 0 THEN [db |-> d, ok |-> FALSE]
       ELSE [db |-> [d EXCEPT ![t][i] = new], ok |-> TRUE]


----------------------------------------------------------------------------
(* The requests *)

\* the route the framework dispatches to: the first one registered for the
\* method and the path (a set: empty when no route matches)
dispatch(rts, method, path) ==
    LET hits == {i \in 1..Len(rts) : rts[i].method = method /\ rts[i].path = path}
    IN {rts[i] : i \in {j \in hits : \A k \in hits : j <= k}}

\* the URL prefixes clients address
Prefixes == {route_prefix(ProductName), route_prefix(OfferName)}

\* request bodies: the columns of a product or of an offer, and one of each
\* that also carries keys outside the schema
ProductPayloads ==
    {[external_id |-> 7, name |-> n, label |-> "A", description |-> "d"] : n \in {"a"}}

OfferPayloads ==
    {[product_id |-> p, reference_year |-> 2024, reference_month |-> 1, value |-> 10] :
        p \in 1..MaxRows}

ExtraPayloads ==
    {[external_id |-> 7, name |-> "a", label |-> "A", description |-> "d",
      id |-> 1, is_active |-> TRUE],
     [product_id |-> 1, reference_year |-> 2024, reference_month |-> 1, value |-> 10,
      id |-> 1, is_active |-> TRUE]}

Payloads == ProductPayloads \cup OfferPayloads \cup ExtraPayloads

ItemIds == 1..MaxRows

\* the query strings of a list request: skip and limit each given or left
\* out, negative, zero or positive
Queries ==
    {<<>>, [skip |-> -1], [limit |-> -1], [limit |-> 0]}
        \cup {[skip |-> k] : k \in 1..MaxSkip}
        \cup {[skip |-> k, limit |-> l] : k \in 1..MaxSkip, l \in 1..MaxSkip}

\* the scan orders the engine may choose for a table of n rows
ScanOrders(n) == {[i \in 1..n |-> i], [i \in 1..n |-> n + 1 - i]}

DefaultSkip == 0
DefaultLimit == 100

Request(method, path, item_id, payload, query) ==
    [method |-> method, path |-> path, item_id |-> item_id, payload |-> payload, query |-> query]

\* the dictionaries of a response
dicts(items) == [i \in 1..Len(items) |-> to_dict(items[i])]

\* create_endpoint
CreateRequest ==
    /\ pc = "serving"
    /\ req = NoRequest
    /\ \E prefix \in Prefixes, payload \in Payloads :
        \E r \in dispatch(routes, "POST", prefix \o Slash) :
           /\ r.endpoint.kind = "create"
           /\ validates(r.endpoint.schema, payload)
           /\ Len(db[class_of(r.endpoint.crud).tablename]) < MaxRows
           /\ seq[class_of(r.endpoint.crud).tablename] < MaxRows
           /\ \E out \in {create_item(db, seq, defaults, class_of(r.endpoint.crud),
                                      model_dump(r.endpoint.schema, payload))} :
                 /\ db' = out.db
                 /\ seq' = out.seq
                 /\ resp' = [status |-> out.status, items |-> dicts(out.item)]
           /\ req' = Request("POST", prefix \o Slash, 0, payload, <<>>)
    /\ UNCHANGED <<listing, dir_exists, pc, models, routes, defaults, now>>

\* get_endpoint
GetRequest ==
    /\ pc = "serving"
    /\ req = NoRequest
    /\ \E prefix \in Prefixes, item_id \in ItemIds :
        \E r \in dispatch(routes, "GET", prefix \o ItemIdPath) :
           /\ r.endpoint.kind = "get"
           /\ \E db_item \in {get_item(db, class_of(r.endpoint.crud), item_id)} :
                 resp' = IF db_item = <<>>
                         THEN [status |-> 404, items |-> <<>>]
                         ELSE [status |-> 200, items |-> dicts(db_item)]
           /\ req' = Request("GET", prefix \o ItemIdPath, item_id, <<>>, <<>>)
    /\ UNCHANGED <<listing, dir_exists, pc, models, routes, db, seq, defaults, now>>

\* get_all_endpoint
ListRequest ==
    /\ pc = "serving"
    /\ req = NoRequest
    /\ \E prefix \in Prefixes, query \in Queries :
        \E r \in dispatch(routes, "GET", prefix \o Slash) :
           /\ r.endpoint.kind = "get_all"
           /\ \E order \in ScanOrders(Len(db[class_of(r.endpoint.crud).tablename])) :
              \E out \in {get_items(db, class_of(r.endpoint.crud),
                                    IF "skip" \in DOMAIN query THEN query.skip ELSE DefaultSkip,
                                    IF "limit" \in DOMAIN query THEN query.limit ELSE DefaultLimit,
                                    order)} :
                 resp' = [status |-> out.status, items |-> dicts(out.items)]
           /\ req' = Request("GET", prefix \o Slash, 0, <<>>, query)
    /\ UNCHANGED <<listing, dir_exists, pc, models, routes, db, seq, defaults, now>>

\* update_endpoint
UpdateRequest ==
    /\ pc = "serving"
    /\ req = NoRequest
    /\ \E prefix \in Prefixes, item_id \in ItemIds, payload \in Payloads :
        \E r \in dispatch(routes, "PUT", prefix \o ItemIdPath) :
           /\ r.endpoint.kind = "update"
           /\ validates(r.endpoint.schema, payload)
           /\ \E out \in {update_item(db, defaults, class_of(r.endpoint.crud), item_id,
                                      model_dump(r.endpoint.schema, payload))} :
                 /\ db' = out.db
                 /\ resp' = [status |-> out.status, items |-> dicts(out.item)]
           /\ req' = Request("PUT", prefix \o ItemIdPath, item_id, payload, <<>>)
    /\ UNCHANGED <<listing, dir_exists, pc, models, routes, seq, defaults, now>>

\* delete_endpoint
DeleteRequest ==
    /\ pc = "serving"
    /\ req = NoRequest
    /\ \E prefix \in Prefixes, item_id \in ItemIds :
        \E r \in dispatch(routes, "DELETE", prefix \o ItemIdPath) :
           /\ r.endpoint.kind = "delete"
           /\ \E out \in {delete_item(db, defaults, class_of(r.endpoint.crud), item_id)} :
                 /\ db' = out.db
                 /\ resp' = [status |-> IF out.ok THEN 200 ELSE 404, items |-> <<>>]
           /\ req' = Request("DELETE", prefix \o ItemIdPath, item_id, <<>>, <<>>)
    /\ UNCHANGED <<listing, dir_exists, pc, models, routes, seq, defaults, now>>

\* the response is sent and the server is idle again
Respond ==
    /\ pc = "serving"
    /\ req # NoRequest
    /\ req' = NoRequest
    /\ resp' = NoResponse
    /\ UNCHANGED <<listing, dir_exists, pc, models, routes, db, seq, defaults, now>>

\* time passes between requests
Tick ==
    /\ pc = "serving"
    /\ req = NoRequest
    /\ now < MaxTime
    /\ now' = now + 1
    /\ UNCHANGED <<listing, dir_exists, pc, models, routes, db, seq, defaults, req, resp>>

\* the application after startup_event has run on the repository's models
\* directory, the tables created and empty
Init ==
    /\ dir_exists = TRUE
    /\ listing = RepoListing
    /\ pc = "serving"
    /\ models = discover_and_register_models(dir_exists, listing)
    /\ routes = generate_crud_routes(AppRoutes, models)
    /\ db = [t \in TableNames |-> <<>>]
    /\ seq = [t \in TableNames |-> 0]
    /\ defaults \in DefaultTimes
    /\ now = defaults.onupdate
    /\ req = NoRequest
    /\ resp = NoResponse

Next ==
    \/ CreateRequest
    \/ GetRequest
    \/ ListRequest
    \/ UpdateRequest
    \/ DeleteRequest
    \/ Respond
    \/ Tick

Spec == Init /\ [][Next]_vars

----------------------------------------------------------------------------
(* The pagination specification: list requests against a products table of *)
(* up to MaxListRows rows, some of them soft-deleted.                       *)

\* a product row as create_item stores it, soft-deleted or not
ProductRow(id, active, dflt) ==
    [id |-> id, created_at |-> dflt.created_at,
     updated_at |-> IF active THEN dflt.updated_at ELSE dflt.onupdate,
     is_active |-> active,
     external_id |-> 7, name |-> "a", label |-> "A", description |-> "d"]

\* which rows have been soft-deleted: none, those with an even id, the first
DeletedPatterns == {"none", "even", "first"}

IsDeleted(pattern, id) ==
    CASE pattern = "none" -> FALSE
      [] pattern = "even" -> id % 2 = 0
      [] pattern = "first" -> id = 1

InitList ==
    /\ dir_exists = TRUE
    /\ listing = RepoListing
    /\ pc = "serving"
    /\ models = discover_and_register_models(dir_exists, listing)
    /\ routes = generate_crud_routes(AppRoutes, models)
    /\ defaults = [created_at |-> 0, updated_at |-> 0, onupdate |-> 1]
    /\ \E n \in 0..MaxListRows, pattern \in DeletedPatterns :
         /\ db = [t \in TableNames |->
                    IF t = Product.tablename
                    THEN [i \in 1..n |-> ProductRow(i, ~IsDeleted(pattern, i), defaults)]
                    ELSE <<>>]
         /\ seq = [t \in TableNames |-> IF t = Product.tablename THEN n ELSE 0]
    /\ now = defaults.onupdate
    /\ req = NoRequest
    /\ resp = NoResponse

NextList == ListRequest \/ Respond

SpecList == InitList /\ [][NextList]_vars

----------------------------------------------------------------------------
(* Properties of the request specification.  A step that serves a request  *)
(* takes the server from idle to holding the request and its response, so  *)
(* req', resp' and db' describe the request just served and db the rows    *)
(* before it.                                                              *)

Served == req = NoRequest /\ req' # NoRequest

\* the URL paths of the two models, and the model a path addresses
ProductPaths == {route_prefix(ProductName) \o ItemIdPath, route_prefix(ProductName) \o Slash}
OfferPaths == {route_prefix(OfferName) \o ItemIdPath, route_prefix(OfferName) \o Slash}
ItemPaths == {route_prefix(ProductName) \o ItemIdPath, route_prefix(OfferName) \o ItemIdPath}
CollectionPaths == {route_prefix(ProductName) \o Slash, route_prefix(OfferName) \o Slash}
Target(path) == IF path \in ProductPaths THEN Product ELSE Offer

Rows(tbl) == {tbl[i] : i \in 1..Len(tbl)}
Ids(tbl) == {tbl[i].id : i \in 1..Len(tbl)}
VisibleIds(tbl) == {tbl[i].id : i \in {k \in 1..Len(tbl) : tbl[k].is_active}}
HiddenIds(tbl) == {tbl[i].id : i \in {k \in 1..Len(tbl) : ~tbl[k].is_active}}

\* tables other than t are the same after the step
OthersUnchanged(t) == \A u \in TableNames \ {t} : db'[u] = db[u]

\* a DELETE that succeeded, and what it did to the rows of its table
DeleteSucceeded == Served /\ req'.method = "DELETE" /\ resp'.status = 200

\* every column of every row outside cols is the same after the step, in table t
OnlyColumnsChange(t, item_id, cols) ==
    /\ Len(db'[t]) = Len(db[t])
    /\ \A i \in 1..Len(db[t]) :
        IF db[t][i].id = item_id
        THEN \A c \in DOMAIN db[t][i] : c \notin cols => db'[t][i][c] = db[t][i][c]
        ELSE db'[t][i] = db[t][i]

FlagFlipped(t, item_id) ==
    \A i \in 1..Len(db[t]) :
        db[t][i].id = item_id => db[t][i].is_active /\ ~db'[t][i].is_active

\* no step removes a row: each row keeps its place and its id
RowsKept ==
    \A t \in TableNames :
        /\ Len(db'[t]) >= Len(db[t])
        /\ \A i \in 1..Len(db[t]) : db'[t][i].id = db[t][i].id

\* C1 as stated: no operation removes a row, and a successful delete changes
\* nothing but the is_active flag of its row, from true to false.
C1_DeleteOnlyFlipsFlag ==
    [][ /\ RowsKept
        /\ DeleteSucceeded =>
             LET t == Target(req'.path).tablename
             IN /\ OthersUnchanged(t)
                /\ FlagFlipped(t, req'.item_id)
                /\ OnlyColumnsChange(t, req'.item_id, {"is_active"}) ]_vars

\* C1 amended: no operation removes a row, and a successful delete changes
\* only its row's is_active flag, from true to false, and its row's
\* updated_at, which takes the onupdate value of the column; every other
\* column and every other row stays as it was.
C1_SoftDeleteKeepsRows ==
    [][ /\ RowsKept
        /\ DeleteSucceeded =>
             LET t == Target(req'.path).tablename
             IN /\ OthersUnchanged(t)
                /\ FlagFlipped(t, req'.item_id)
                /\ OnlyColumnsChange(t, req'.item_id, {"is_active", "updated_at"})
                /\ \A i \in 1..Len(db'[t]) :
                     db'[t][i].id = req'.item_id => db'[t][i].updated_at = defaults.onupdate ]_vars

\* a delete has succeeded on a row whose updated_at it changed; the row is
\* still stored
C1_Witness ==
    /\ req.method = "DELETE"
    /\ resp.status = 200
    /\ defaults.onupdate # defaults.updated_at
    /\ \E r \in Rows(db[Target(req.path).tablename]) :
         r.id = req.item_id /\ ~r.is_active /\ r.updated_at = defaults.onupdate

\* C2: a row with is_active = false is invisible: get by its id returns no
\* item, no list contains it, update of its id returns no item and delete of
\* its id returns false, and neither changes any row.
C2_InactiveInvisible ==
    [][ Served =>
          LET t == Target(req'.path).tablename
              hidden == req'.item_id \in HiddenIds(db[t])
          IN /\ (req'.method = "GET" /\ req'.path \in ItemPaths /\ hidden)
                    => resp'.items = <<>> /\ resp'.status = 404
             /\ (req'.method = "GET" /\ req'.path \in CollectionPaths)
                    => \A k \in 1..Len(resp'.items) :
                          /\ resp'.items[k].is_active
                          /\ resp'.items[k].id \notin HiddenIds(db[t])
             /\ (req'.method = "PUT" /\ hidden)
                    => resp'.items = <<>> /\ resp'.status = 404 /\ db' = db
             /\ (req'.method = "DELETE" /\ hidden)
                    => resp'.status = 404 /\ db' = db ]_vars

\* an update addressed a soft-deleted row and found nothing
C2_Witness ==
    /\ req.method = "PUT"
    /\ req.item_id \in HiddenIds(db[Target(req.path).tablename])
    /\ resp.status = 404

\* does the body of a create or update violate the foreign key of its table?
ViolatesForeignKey(m, payload) ==
    \E i \in 1..Len(m.columns) :
        /\ m.columns[i].fk # <<>>
        /\ payload[m.columns[i].name] \notin Ids(db[m.columns[i].fk])

\* C3: a create, or an update of a visible row, whose body violates an
\* integrity constraint is answered 400 and leaves every table as it was;
\* and whatever is answered 400 has changed no row.
C3_IntegrityErrorRollsBack ==
    [][ Served =>
          LET m == Target(req'.path)
          IN /\ (req'.method = "POST" /\ ViolatesForeignKey(m, req'.payload))
                    => resp'.status = 400 /\ db' = db
             /\ (req'.method = "PUT" /\ req'.item_id \in VisibleIds(db[m.tablename])
                                     /\ ViolatesForeignKey(m, req'.payload))
                    => resp'.status = 400 /\ db' = db
             /\ resp'.status = 400 => db' = db ]_vars

\* an update of a visible offer named a product that does not exist
C3_Witness ==
    /\ req.method = "PUT"
    /\ resp.status = 400
    /\ req.item_id \in VisibleIds(db[Target(req.path).tablename])
    /\ req.payload.product_id \notin Ids(db[Product.tablename])

\* C4: a get, update or delete of an id with no visible row is answered 404
\* and changes no row; a successful delete leaves its id without a visible
\* row, so that a second delete of it is answered 404.
C4_MissingRowIs404 ==
    [][ Served =>
          LET m == Target(req'.path)
          IN /\ (req'.path \in ItemPaths /\ req'.item_id \notin VisibleIds(db[m.tablename]))
                    => resp'.status = 404 /\ resp'.items = <<>> /\ db' = db
             /\ (req'.method = "DELETE" /\ resp'.status = 200)
                    => req'.item_id \notin VisibleIds(db'[m.tablename]) ]_vars

\* a delete of an id that was soft-deleted before was answered 404
C4_Witness ==
    /\ req.method = "DELETE"
    /\ resp.status = 404
    /\ req.item_id \in HiddenIds(db[Target(req.path).tablename])


\* C7 as stated: created_at of an entity is the time its create ran, and
\* after a successful update updated_at is the time of that update.
C7_TimestampsRecordOperationTime ==
    [][ Served =>
          /\ (req'.method = "POST" /\ resp'.status = 200)
                => resp'.items[1].created_at = now
          /\ (req'.method = "PUT" /\ resp'.status = 200)
                => resp'.items[1].updated_at = now ]_vars

\* C9: a soft-deleted row stays soft-deleted whatever request is served, and
\* the id a create hands out is the id of no row stored before it.
C9_SoftDeleteIrreversible ==
    [][ /\ \A t \in TableNames :
             \A id \in HiddenIds(db[t]) :
                 id \in HiddenIds(db'[t]) /\ id \notin VisibleIds(db'[t])
        /\ (Served /\ req'.method = "POST" /\ resp'.status = 200)
              => LET t == Target(req'.path).tablename
                 IN /\ resp'.items[1].id \notin Ids(db[t])
                    /\ Cardinality({i \in 1..Len(db'[t]) : db'[t][i].id = resp'.items[1].id}) = 1 ]_vars

\* a create succeeded on a table that holds a soft-deleted row, with a body
\* that asked for id 1 and is_active
C9_Witness ==
    /\ req.method = "POST"
    /\ resp.status = 200
    /\ "is_active" \in DOMAIN req.payload
    /\ 1 \in HiddenIds(db[Target(req.path).tablename])

\* C10: a request on the routes of one model changes no row of another
\* model's table and answers with rows of its own table only; an offer whose
\* product is soft-deleted is still returned by get and by list.
C10_EndpointsBoundToOwnModel ==
    [][ Served =>
          LET t == Target(req'.path).tablename
          IN /\ OthersUnchanged(t)
             /\ \A k \in 1..Len(resp'.items) : resp'.items[k] \in Rows(db'[t])
             /\ (req'.method = "GET" /\ req'.path \in ItemPaths
                     /\ req'.item_id \in VisibleIds(db[t]))
                    => /\ resp'.status = 200
                       /\ resp'.items[1].id = req'.item_id
             /\ (req'.method = "GET" /\ req'.path \in CollectionPaths /\ req'.query = <<>>)
                    => {resp'.items[k].id : k \in 1..Len(resp'.items)} = VisibleIds(db[t]) ]_vars

\* a get returned an offer whose product is soft-deleted
C10_Witness ==
    /\ req.method = "GET"
    /\ req.path \in OfferPaths \cap ItemPaths
    /\ resp.status = 200
    /\ resp.items[1].product_id \in HiddenIds(db[Product.tablename])

----------------------------------------------------------------------------
(* Properties of the pagination specification *)

Min(a, b) == IF a < b THEN a ELSE b
Max(a, b) == IF a > b THEN a ELSE b

\* the k-th visible row of the table scanned in the given order
VisibleInOrder(tbl, order) ==
    SelectSeq([i \in 1..Len(tbl) |-> tbl[order[i]]], LAMBDA r : r.is_active)

\* C5: a list request with skip >= 0 and limit >= 0 returns visible rows of
\* its table only, min(limit, visible - skip) of them, which are the visible
\* rows after the first skip in the order of the scan; without parameters
\* skip is 0 and limit is 100: all visible rows when there are at most 100,
\* exactly 100 otherwise.
C5_Pagination ==
    (req.method = "GET" /\ req.path \in CollectionPaths) =>
        LET tbl == db[Target(req.path).tablename]
            skip == IF "skip" \in DOMAIN req.query THEN req.query.skip ELSE 0
            limit == IF "limit" \in DOMAIN req.query THEN req.query.limit ELSE 100
            visible == Cardinality(VisibleIds(tbl))
            n == Len(resp.items)
        IN (skip >= 0 /\ limit >= 0) =>
            /\ resp.status = 200
            /\ \A k \in 1..n : resp.items[k].is_active /\ resp.items[k] \in Rows(tbl)
            /\ n <= limit
            /\ n = Min(limit, Max(visible - skip, 0))
            /\ \E order \in ScanOrders(Len(tbl)) :
                 \A k \in 1..n : resp.items[k] = VisibleInOrder(tbl, order)[skip + k]
            /\ req.query = <<>> =>
                 /\ visible <= 100 => {resp.items[k].id : k \in 1..n} = VisibleIds(tbl)
                 /\ visible > 100 => n = 100

\* a list request without parameters met more than 100 visible rows and
\* returned 100 of them
C5_Witness ==
    /\ req.method = "GET"
    /\ req.query = <<>>
    /\ Cardinality(VisibleIds(db[Product.tablename])) > 100
    /\ Len(resp.items) = 100

----------------------------------------------------------------------------
(* Properties of the startup specification *)

Range(f) == {f[i] : i \in DOMAIN f}

\* the five (method, path) pairs the claim names, for a written-out prefix
FiveEndpoints(prefix) ==
    { <<"POST", prefix \o <<"/">> >>,
      <<"GET", prefix \o <<"/","{","i","t","e","m","_","i","d","}">> >>,
      <<"GET", prefix \o <<"/">> >>,
      <<"PUT", prefix \o <<"/","{","i","t","e","m","_","i","d","}">> >>,
      <<"DELETE", prefix \o <<"/","{","i","t","e","m","_","i","d","}">> >> }

\* /<lower-cased model name>, written out
LowerCasedPrefix(name) ==
    CASE name = ProductName -> <<"/","p","r","o","d","u","c","t">>
      [] name = OfferName -> <<"/","o","f","f","e","r">>
      [] name = DraftName -> <<"/","d","r","a","f","t">>
      [] name = BaseModelName -> <<"/","b","a","s","e","m","o","d","e","l">>

\* C6: after startup the route table holds, for every discovered model, the
\* five endpoints POST /, GET /{item_id}, GET /, PUT /{item_id} and DELETE
\* /{item_id} under /<lower-cased model name> and nothing else under that
\* prefix, and 5 * N generated routes for N models.
C6_FiveRoutesPerModel ==
    pc = "serving" =>
        /\ Len(SelectSeq(routes, LAMBDA r : r.tags # <<>>)) = 5 * Len(models)
        /\ \A i \in 1..Len(models) :
             LET prefix == LowerCasedPrefix(models[i].key)
                 under == {k \in 1..Len(routes) : startswith(routes[k].path, prefix \o <<"/">>)}
             IN /\ Cardinality(under) = 5
                /\ {<<routes[k].method, routes[k].path>> : k \in under} = FiveEndpoints(prefix)
                /\ \A k \in under : routes[k].endpoint.crud = models[i].value

\* startup has discovered both models and registered their routes
C6_Witness ==
    /\ pc = "serving"
    /\ Len(models) = 2
    /\ Len(routes) = Len(AppRoutes) + 10

\* C8: discovery maps class names to classes; it holds Product exactly when
\* product.py is in the directory and Offer exactly when offer.py is, and
\* nothing else: __init__.py and offer.pyc are not read, BaseModel, Base and
\* LabelEnum are not registered, draft.py (ImportError) contributes nothing
\* and stops nothing, and a missing directory gives the empty mapping.
C8_DiscoveryRegistersModels ==
    pc = "serving" =>
        /\ dict_keys(models) \subseteq {ProductName, OfferName}
        /\ ProductName \in dict_keys(models) <=> (dir_exists /\ ProductPy \in Range(listing))
        /\ OfferName \in dict_keys(models) <=> (dir_exists /\ OfferPy \in Range(listing))
        /\ Cardinality(dict_keys(models)) = Len(models)
        /\ \A i \in 1..Len(models) : class_of(models[i].value).name = models[i].key
        /\ ~dir_exists => models = <<>>

\* a module that failed to import was listed before product.py, and Product
\* was discovered all the same
C8_Witness ==
    /\ pc = "serving"
    /\ \E i, j \in 1..Len(listing) : i < j /\ listing[i] = DraftPy /\ listing[j] = ProductPy
    /\ ProductName \in dict_keys(models)

=============================================================================
